---- MODULE Spec2Model ----
(***************************************************************************)
(* Model of prak1.py: a shell emulator over a zip-backed virtual file      *)
(* system (VirtualFileSystem, ShellEmulator, ShellApp).                    *)
(*                                                                         *)
(* Python strings are sequences of characters (one-character TLA+          *)
(* strings); the fixed texts of the messages are kept as single chunks.    *)
(* The nested dict self.fs is a sequence of <<path, val>> entries in       *)
(* insertion order: an entry with val "dict" is a dict stored under the    *)
(* key Last(path) of the dict at Front(path); an entry with val "str" is   *)
(* the string 'file' stored under that key (the marker of a file leaf,     *)
(* {'type': 'file'}).  The root dict is the path <<>>.                     *)
(***************************************************************************)
EXTENDS Integers, Sequences, FiniteSets, TLC

(* ------------------------------ bounds -------------------------------- *)
MaxEntries == 2     \* entries of the archive
MaxCalls   == 3     \* calls of execute_command in one run
MaxLen     == 4     \* characters of a generated file content

(* ------------------------------ strings ------------------------------- *)
SP == " "
NL == "\n"
TAB == "\t"
SLASH == "/"
BadByte == "\\xff"      \* a byte that is not valid UTF-8

Whitespace == {SP, NL, TAB}

s_a     == <<"a">>
s_f     == <<"f">>
s_type  == <<"t", "y", "p", "e">>
s_file  == <<"f", "i", "l", "e">>
s_exit  == <<"e", "x", "i", "t">>
s_mkdir == <<"m", "k", "d", "i", "r">>
s_ls    == <<"l", "s">>
s_cd    == <<"c", "d">>
s_wc    == <<"w", "c">>
s_tac   == <<"t", "a", "c">>
s_foo   == <<"f", "o", "o">>
s_up    == <<".", ".">>
s_root  == <<"/">>

Front(s) == SubSeq(s, 1, Len(s) - 1)
Last(s)  == s[Len(s)]

\* x in s, for a str s: x is a contiguous part of s
IsSubstring(x, s) ==
    \E i \in 1..(Len(s) + 1) :
        /\ i + Len(x) - 1 <= Len(s)
        /\ SubSeq(s, i, i + Len(x) - 1) = x

\* s.strip(chars)
RECURSIVE LStrip(_, _)
LStrip(s, chars) ==
    IF s # <<>> /\ Head(s) \in chars THEN LStrip(Tail(s), chars) ELSE s

RECURSIVE RStrip(_, _)
RStrip(s, chars) ==
    IF s # <<>> /\ Last(s) \in chars THEN RStrip(Front(s), chars) ELSE s

Strip(s, chars) == RStrip(LStrip(s, chars), chars)

\* s.split(sep): every separator ends a segment, empty segments are kept
RECURSIVE SplitOn(_, _, _)
SplitOn(s, sep, cur) ==
    IF s = <<>> THEN <<cur>>
    ELSE IF Head(s) = sep THEN <<cur>> \o SplitOn(Tail(s), sep, <<>>)
    ELSE SplitOn(Tail(s), sep, Append(cur, Head(s)))

\* s.split(): runs of whitespace separate, no empty tokens
RECURSIVE SplitWs(_, _)
SplitWs(s, cur) ==
    IF s = <<>> THEN (IF cur = <<>> THEN <<>> ELSE <<cur>>)
    ELSE IF Head(s) \in Whitespace
         THEN (IF cur = <<>> THEN <<>> ELSE <<cur>>) \o SplitWs(Tail(s), <<>>)
    ELSE SplitWs(Tail(s), Append(cur, Head(s)))

split(s) == SplitWs(s, <<>>)

\* s.splitlines(): a line break ends a line, no empty last line
RECURSIVE SplitLines(_, _)
SplitLines(s, cur) ==
    IF s = <<>> THEN (IF cur = <<>> THEN <<>> ELSE <<cur>>)
    ELSE IF Head(s) = NL THEN <<cur>> \o SplitLines(Tail(s), <<>>)
    ELSE SplitLines(Tail(s), Append(cur, Head(s)))

splitlines(s) == SplitLines(s, <<>>)

\* sep.join(list)
RECURSIVE join(_, _)
join(sep, list) ==
    IF list = <<>> THEN <<>>
    ELSE IF Len(list) = 1 THEN list[1]
    ELSE list[1] \o sep \o join(sep, Tail(list))

RECURSIVE reversed(_)
reversed(list) ==
    IF list = <<>> THEN <<>> ELSE Append(reversed(Tail(list)), Head(list))

\* str(n) for a natural number n
RECURSIVE str(_)
str(n) ==
    LET d == <<"0", "1", "2", "3", "4", "5", "6", "7", "8", "9">>
    IN  IF n < 10 THEN <<d[n + 1]>> ELSE str(n \div 10) \o <<d[(n % 10) + 1]>>

(* ------------------------- results of a call -------------------------- *)
Str(s)      == [kind |-> "str", s |-> s]
None        == [kind |-> "none", s |-> <<>>]
Raise(exc)  == [kind |-> "raise", s |-> <<exc>>]

(* ------------------------------ the tree ------------------------------ *)
Has(t, p) == p = <<>> \/ \E i \in 1..Len(t) : t[i].path = p

Val(t, p) ==
    IF p = <<>> THEN "dict"
    ELSE t[CHOOSE i \in 1..Len(t) : t[i].path = p].val

IsPrefix(p, q) == Len(p) <= Len(q) /\ SubSeq(q, 1, Len(p)) = p

\* the keys of the dict at p, in insertion order
RECURSIVE Keys(_, _)
Keys(t, p) ==
    IF t = <<>> THEN <<>>
    ELSE IF Len(Head(t).path) = Len(p) + 1 /\ IsPrefix(p, Head(t).path)
         THEN <<Last(Head(t).path)>> \o Keys(Tail(t), p)
    ELSE Keys(Tail(t), p)

\* drop everything stored below p
RECURSIVE DropBelow(_, _)
DropBelow(t, p) ==
    IF t = <<>> THEN <<>>
    ELSE IF IsPrefix(p, Head(t).path) /\ Head(t).path # p
         THEN DropBelow(Tail(t), p)
    ELSE <<Head(t)>> \o DropBelow(Tail(t), p)

\* d[k] = {} for the dict d at p: a key that exists keeps its place and
\* loses what was stored under it
SetEmptyDict(t, p, k) ==
    LET q == Append(p, k)
    IN  IF Has(t, q)
        THEN [i \in 1..Len(DropBelow(t, q)) |->
                 IF DropBelow(t, q)[i].path = q
                 THEN [path |-> q, val |-> "dict"]
                 ELSE DropBelow(t, q)[i]]
        ELSE Append(t, [path |-> q, val |-> "dict"])

\* d[k] = {'type': 'file'}
SetFileLeaf(t, p, k) ==
    Append(SetEmptyDict(t, p, k),
           [path |-> Append(Append(p, k), s_type), val |-> "str"])

\* a file leaf is a dict whose key 'type' holds the string 'file'
IsFileLeaf(t, p) ==
    /\ Has(t, p) /\ Val(t, p) = "dict"
    /\ Has(t, Append(p, s_type)) /\ Val(t, Append(p, s_type)) = "str"

IsDirectory(t, p) == Has(t, p) /\ Val(t, p) = "dict" /\ ~IsFileLeaf(t, p)

(* ----------------------------- the archive ---------------------------- *)
\* the entries an archive is made of: ZipInfo.filename and the stored bytes
ZipEntries ==
    { [filename |-> <<"a", "/">>,      data |-> <<>>],
      [filename |-> <<"f">>,           data |-> s_exit],
      [filename |-> <<"a", "/", "f">>, data |-> <<"a", " ", "b", NL, "c">>] }

RECURSIVE SeqsUpTo(_, _)
SeqsUpTo(S, n) ==
    IF n = 0 THEN {<<>>}
    ELSE SeqsUpTo(S, n - 1) \cup
         {Append(q, e) : q \in {r \in SeqsUpTo(S, n - 1) : Len(r) = n - 1}, e \in S}

\* an archive holds each of its names once
Archives ==
    {z \in SeqsUpTo(ZipEntries, MaxEntries) :
        \A i, j \in 1..Len(z) : z[i] = z[j] => i = j}

\* ZipInfo.is_dir(): the name ends with a slash
is_dir(file_info) ==
    file_info.filename # <<>> /\ Last(file_info.filename) = SLASH

\* zip_ref.open(name).read(): the last entry of that name, KeyError if none
ZipRead(z, name) ==
    IF \E i \in 1..Len(z) : z[i].filename = name
    THEN Str(z[CHOOSE i \in 1..Len(z) :
                 /\ z[i].filename = name
                 /\ \A j \in (i + 1)..Len(z) : z[j].filename # name].data)
    ELSE Raise("KeyError")

\* bytes.decode('utf-8')
decode(bytes) ==
    IF \E i \in 1..Len(bytes) : bytes[i] = BadByte
    THEN Raise("UnicodeDecodeError")
    ELSE Str(bytes)

(* -------------------------- VirtualFileSystem ------------------------- *)
\* the loop of _add_to_fs over parts[:-1]: the path of the dict reached
RECURSIVE AddWalk(_, _, _)
AddWalk(t, cur, parts) ==
    IF parts = <<>> THEN [fs |-> t, cur |-> cur]
    ELSE LET t1 == IF Has(t, Append(cur, Head(parts))) THEN t
                   ELSE SetEmptyDict(t, cur, Head(parts))
         IN  AddWalk(t1, Append(cur, Head(parts)), Tail(parts))

_add_to_fs(t, path, is_file) ==
    LET parts == SplitOn(Strip(path, {SLASH}), SLASH, <<>>)
        w     == AddWalk(t, <<>>, Front(parts))
    IN  IF is_file THEN SetFileLeaf(w.fs, w.cur, Last(parts))
        ELSE SetEmptyDict(w.fs, w.cur, Last(parts))

\* load_zip, the entries from index i on
RECURSIVE load_zip(_, _, _)
load_zip(t, z, i) ==
    IF i > Len(z) THEN t
    ELSE load_zip(_add_to_fs(t, z[i].filename, ~is_dir(z[i])), z, i + 1)

\* the value reached: a dict (k = "dict", at path p), the string 'file'
\* (k = "str"), None (k = "none"), or AttributeError (k = "raise") when
\* .get is called on the string
RECURSIVE NavFrom(_, _, _)
NavFrom(t, cur, names) ==
    IF names = <<>> THEN cur
    ELSE IF cur.k = "str" THEN [k |-> "raise", p |-> <<>>]
    ELSE IF ~Has(t, Append(cur.p, Head(names))) THEN [k |-> "none", p |-> <<>>]
    ELSE NavFrom(t, [k |-> Val(t, Append(cur.p, Head(names))),
                     p |-> Append(cur.p, Head(names))], Tail(names))

_navigate_to_current_dir(t, cp) == NavFrom(t, [k |-> "dict", p |-> <<>>], Tail(cp))

\* name in current, for a dict (its keys) or the string 'file' (its parts)
In(t, name, cur) ==
    IF cur.k = "dict" THEN Has(t, Append(cur.p, name))
    ELSE cur.k = "str" /\ IsSubstring(name, s_file)

\* truth value of current
Truthy(t, cur) ==
    \/ cur.k = "str"
    \/ cur.k = "dict" /\ Keys(t, cur.p) # <<>>

Ret(t, cp, r) == [fs |-> t, current_path |-> cp, result |-> r]

\* mkdir without the test for a key that exists
mkdir_NoExistsCheck(t, cp, dir_name) ==
    LET current_dir == _navigate_to_current_dir(t, cp)
    IN  IF current_dir.k = "raise" THEN Ret(t, cp, Raise("AttributeError"))
        ELSE IF current_dir.k = "none"
        THEN Ret(t, cp, Str(<<"Cannot find the current directory.">>))
        ELSE IF current_dir.k = "str" THEN Ret(t, cp, Raise("TypeError"))
        ELSE Ret(SetEmptyDict(t, current_dir.p, dir_name), cp,
                 Str(<<"Directory '">> \o dir_name \o <<"' created.">>))

mkdir(t, cp, dir_name) ==
    LET current_dir == _navigate_to_current_dir(t, cp)
    IN  IF current_dir.k = "raise" THEN Ret(t, cp, Raise("AttributeError"))
        ELSE IF current_dir.k = "none"
        THEN Ret(t, cp, Str(<<"Cannot find the current directory.">>))
        ELSE IF In(t, dir_name, current_dir)
        THEN Ret(t, cp, Str(<<"Directory '">> \o dir_name \o <<"' already exists.">>))
        ELSE IF current_dir.k = "str" THEN Ret(t, cp, Raise("TypeError"))
        ELSE Ret(SetEmptyDict(t, current_dir.p, dir_name), cp,
                 Str(<<"Directory '">> \o dir_name \o <<"' created.">>))

\* the output lines of ls for the keys of the dict at p
RECURSIVE LsLines(_, _, _)
LsLines(t, p, names) ==
    IF names = <<>> THEN <<>>
    ELSE LET q == Append(p, Head(names))
         IN  (IF Val(t, q) # "dict" THEN <<>>
              ELSE IF IsFileLeaf(t, q) THEN <<Head(names)>>
              ELSE <<Head(names) \o <<SLASH>> >>)
             \o LsLines(t, p, Tail(names))

ls(t, cp) ==
    LET current_dir == _navigate_to_current_dir(t, cp)
    IN  IF current_dir.k = "raise" THEN Ret(t, cp, Raise("AttributeError"))
        ELSE IF current_dir.k = "none"
        THEN Ret(t, cp, Str(<<"Cannot find the current directory.">>))
        ELSE IF ~Truthy(t, current_dir)
        THEN Ret(t, cp, Str(join(<<NL>>, << <<"No files or directories found.">> >>)))
        ELSE IF current_dir.k = "str" THEN Ret(t, cp, Raise("AttributeError"))
        ELSE Ret(t, cp, Str(join(<<NL>>,
                     LsLines(t, current_dir.p, Keys(t, current_dir.p)))))

\* cd whose ".." pops only a stack of more than two segments
cd_PopOffByOne(t, cp, dir_name) ==
    IF dir_name = s_up
    THEN Ret(t, IF Len(cp) > 2 THEN Front(cp) ELSE cp, Str(<<>>))
    ELSE LET current_dir == _navigate_to_current_dir(t, cp)
         IN  IF current_dir.k = "raise" THEN Ret(t, cp, Raise("AttributeError"))
             ELSE IF current_dir.k = "none" THEN Ret(t, cp, Raise("TypeError"))
             ELSE IF In(t, dir_name, current_dir)
             THEN Ret(t, Append(cp, dir_name), Str(<<>>))
             ELSE Ret(t, cp, Str(<<"Directory '">> \o dir_name \o <<"' not found.">>))

\* cd that makes the directory it does not find, and enters it
cd_CreatesMissing(t, cp, dir_name) ==
    IF dir_name = s_up
    THEN Ret(t, IF Len(cp) > 1 THEN Front(cp) ELSE cp, Str(<<>>))
    ELSE LET current_dir == _navigate_to_current_dir(t, cp)
         IN  IF current_dir.k = "raise" THEN Ret(t, cp, Raise("AttributeError"))
             ELSE IF current_dir.k = "none" THEN Ret(t, cp, Raise("TypeError"))
             ELSE IF In(t, dir_name, current_dir)
             THEN Ret(t, Append(cp, dir_name), Str(<<>>))
             ELSE IF current_dir.k = "str" THEN Ret(t, cp, Raise("TypeError"))
             ELSE Ret(SetEmptyDict(t, current_dir.p, dir_name),
                      Append(cp, dir_name), Str(<<>>))

\* cd whose ".." removes two segments from a stack of more than two
cd_PopsTwo(t, cp, dir_name) ==
    IF dir_name = s_up
    THEN Ret(t, IF Len(cp) > 2 THEN Front(Front(cp))
                ELSE IF Len(cp) > 1 THEN Front(cp) ELSE cp, Str(<<>>))
    ELSE LET current_dir == _navigate_to_current_dir(t, cp)
         IN  IF current_dir.k = "raise" THEN Ret(t, cp, Raise("AttributeError"))
             ELSE IF current_dir.k = "none" THEN Ret(t, cp, Raise("TypeError"))
             ELSE IF In(t, dir_name, current_dir)
             THEN Ret(t, Append(cp, dir_name), Str(<<>>))
             ELSE Ret(t, cp, Str(<<"Directory '">> \o dir_name \o <<"' not found.">>))

cd(t, cp, dir_name) ==
    IF dir_name = s_up
    THEN Ret(t, IF Len(cp) > 1 THEN Front(cp) ELSE cp, Str(<<>>))
    ELSE LET current_dir == _navigate_to_current_dir(t, cp)
         IN  IF current_dir.k = "raise" THEN Ret(t, cp, Raise("AttributeError"))
             ELSE IF current_dir.k = "none" THEN Ret(t, cp, Raise("TypeError"))
             ELSE IF In(t, dir_name, current_dir)
             THEN Ret(t, Append(cp, dir_name), Str(<<>>))
             ELSE Ret(t, cp, Str(<<"Directory '">> \o dir_name \o <<"' not found.">>))

\* the decoded content, None, or the exception that leaves read_file
read_file(t, cp, z, file_name) ==
    LET current_dir == _navigate_to_current_dir(t, cp)
    IN  IF current_dir.k = "raise" THEN Raise("AttributeError")
        ELSE IF Truthy(t, current_dir) /\ In(t, file_name, current_dir)
        THEN LET bytes == ZipRead(z, join(<<SLASH>>, Append(Tail(cp), file_name)))
             IN  IF bytes.kind = "raise" THEN bytes ELSE decode(bytes.s)
        ELSE None

\* wc that counts the lines with split('\n')
wc_SplitNewline(t, cp, z, file_name) ==
    LET content == read_file(t, cp, z, file_name)
    IN  IF content.kind = "raise" THEN Ret(t, cp, content)
        ELSE IF content.kind = "none"
        THEN Ret(t, cp, Str(<<"Error: File '">> \o file_name \o <<"' not found.">>))
        ELSE Ret(t, cp, Str(str(Len(SplitOn(content.s, NL, <<>>))) \o <<" lines, ">>
                            \o str(Len(split(content.s))) \o <<" words, ">>
                            \o str(Len(content.s)) \o <<" characters">>))

wc(t, cp, z, file_name) ==
    LET content == read_file(t, cp, z, file_name)
    IN  IF content.kind = "raise" THEN Ret(t, cp, content)
        ELSE IF content.kind = "none"
        THEN Ret(t, cp, Str(<<"Error: File '">> \o file_name \o <<"' not found.">>))
        ELSE Ret(t, cp, Str(str(Len(splitlines(content.s))) \o <<" lines, ">>
                            \o str(Len(split(content.s))) \o <<" words, ">>
                            \o str(Len(content.s)) \o <<" characters">>))

\* tac that joins the lines without reversing them
tac_NoReverse(t, cp, z, file_name) ==
    LET content == read_file(t, cp, z, file_name)
    IN  IF content.kind = "raise" THEN Ret(t, cp, content)
        ELSE IF content.kind = "none"
        THEN Ret(t, cp, Str(<<"Error: File '">> \o file_name \o <<"' not found.">>))
        ELSE Ret(t, cp, Str(join(<<NL>>, splitlines(content.s))))

tac(t, cp, z, file_name) ==
    LET content == read_file(t, cp, z, file_name)
    IN  IF content.kind = "raise" THEN Ret(t, cp, content)
        ELSE IF content.kind = "none"
        THEN Ret(t, cp, Str(<<"Error: File '">> \o file_name \o <<"' not found.">>))
        ELSE Ret(t, cp, Str(join(<<NL>>, reversed(splitlines(content.s)))))

(* ----------------------------- ShellEmulator -------------------------- *)
Username == <<"u">>

\* log_action that puts the new record first
log_action_Prepend(lg, command) ==
    <<[user |-> Username, command |-> command]>> \o lg

\* self.log.append({"user": self.username, "command": command})
log_action(lg, command) == Append(lg, [user |-> Username, command |-> command])

exit == Str(s_exit)

\* what the dispatch of execute_command does to the file system
\* the dispatch with mkdir reading args[0] without the test for an argument
Dispatch_MkdirNoArgTest(t, cp, z, cmd, args) ==
    IF cmd = s_mkdir
    THEN (IF args # <<>> THEN mkdir(t, cp, args[1])
          ELSE Ret(t, cp, Raise("IndexError")))
    ELSE IF cmd = s_ls THEN ls(t, cp)
    ELSE IF cmd = s_cd
    THEN (IF args # <<>> THEN cd(t, cp, args[1]) ELSE Ret(t, cp, Str(<<>>)))
    ELSE IF cmd = s_exit THEN Ret(t, cp, exit)
    ELSE IF cmd = s_wc
    THEN (IF args # <<>> THEN wc(t, cp, z, args[1])
          ELSE Ret(t, cp, Str(<<"No file name provided.">>)))
    ELSE IF cmd = s_tac
    THEN (IF args # <<>> THEN tac(t, cp, z, args[1])
          ELSE Ret(t, cp, Str(<<"No file name provided.">>)))
    ELSE Ret(t, cp, Str(<<"Unknown command: ">> \o cmd))

Dispatch(t, cp, z, cmd, args) ==
    IF cmd = s_mkdir
    THEN (IF args # <<>> THEN mkdir(t, cp, args[1])
          ELSE Ret(t, cp, Str(<<"No directory name provided.">>)))
    ELSE IF cmd = s_ls THEN ls(t, cp)
    ELSE IF cmd = s_cd
    THEN (IF args # <<>> THEN cd(t, cp, args[1]) ELSE Ret(t, cp, Str(<<>>)))
    ELSE IF cmd = s_exit THEN Ret(t, cp, exit)
    ELSE IF cmd = s_wc
    THEN (IF args # <<>> THEN wc(t, cp, z, args[1])
          ELSE Ret(t, cp, Str(<<"No file name provided.">>)))
    ELSE IF cmd = s_tac
    THEN (IF args # <<>> THEN tac(t, cp, z, args[1])
          ELSE Ret(t, cp, Str(<<"No file name provided.">>)))
    ELSE Ret(t, cp, Str(<<"Unknown command: ">> \o cmd))

\* execute_command: an exception leaves before log_action
execute_command(t, cp, z, lg, command) ==
    LET parts == split(command)
    IN  IF Len(parts) = 0
        THEN [fs |-> t, current_path |-> cp, log |-> lg, result |-> None]
        ELSE LET d == Dispatch(t, cp, z, parts[1], Tail(parts))
             IN  [fs |-> d.fs, current_path |-> d.current_path,
                  log |-> IF d.result.kind = "raise" THEN lg
                          ELSE log_action(lg, command),
                  result |-> d.result]

(* ------------------------------- inputs ------------------------------- *)
Cmd(v, n) == v \o <<SP>> \o n

Commands ==
    { Cmd(s_mkdir, s_a), Cmd(s_mkdir, s_f), s_mkdir,
      s_ls,
      Cmd(s_cd, s_a), Cmd(s_cd, s_f), Cmd(s_cd, s_type), Cmd(s_cd, s_up), s_cd,
      Cmd(s_wc, s_a), Cmd(s_wc, s_f), s_wc,
      Cmd(s_tac, s_f), s_tac,
      s_exit, s_foo, <<>>, <<SP>> }

\* the --startup_script argument: not given, a missing file, a file
NoScript      == [given |-> FALSE, exists |-> FALSE, lines |-> <<>>]
MissingScript == [given |-> TRUE,  exists |-> FALSE, lines |-> <<>>]
Script1       == [given |-> TRUE,  exists |-> TRUE,
                  lines |-> << Cmd(s_mkdir, s_a) \o <<NL>>,
                               <<NL>>,
                               <<SP>> \o Cmd(s_cd, s_a) \o <<NL>> >>]

Scripts == {NoScript, MissingScript, Script1}

(* ------------------------------- state -------------------------------- *)
VARIABLES
    zip,             \* the archive: its entries, in order
    entry,           \* "main": the program; "emulator": ShellEmulator built by a client
    startup_script,  \* the script named on start
    pc,              \* "load_zip", "startup", "ready", "destroyed", "failed"
    loaded,          \* entries of the archive added to the tree
    fs,              \* VirtualFileSystem.fs
    current_path,    \* VirtualFileSystem.current_path
    log,             \* ShellEmulator.log
    logfile,         \* content of the log file: written or not, the records
    script_pos,      \* lines of the script executed
    history,         \* texts passed to execute_command, in order
    result,          \* what the last call of execute_command returned
    asked,           \* the last command made the caller ask to quit
    before           \* tree and path stack when the last call was made

vars == <<zip, entry, startup_script, pc, loaded, fs, current_path, log,
          logfile, script_pos, history, result, asked,
                   before>>

Init ==
    /\ zip \in Archives
    /\ entry \in {"main", "emulator"}
    /\ startup_script \in Scripts
    /\ entry = "main" => startup_script = Script1
    /\ pc = "load_zip"
    /\ loaded = 0
    /\ fs = <<>>
    /\ current_path = <<s_root>>
    /\ log = <<>>
    /\ logfile = [written |-> FALSE, records |-> <<>>]
    /\ script_pos = 0
    /\ history = <<>>
    /\ result = None
    /\ asked = FALSE
    /\ before = [fs |-> <<>>, current_path |-> <<s_root>>]

\* one turn of the loop of load_zip
LoadEntry ==
    /\ pc = "load_zip"
    /\ loaded < Len(zip)
    /\ fs' = _add_to_fs(fs, zip[loaded + 1].filename, ~is_dir(zip[loaded + 1]))
    /\ loaded' = loaded + 1
    /\ UNCHANGED <<zip, entry, startup_script, pc, current_path, log, logfile,
                   script_pos, history, result, asked,
                   before>>

\* ShellApp.__init__: ShellEmulator(vfs, username, logfile), no script
ShellApp_init ==
    /\ pc = "load_zip"
    /\ loaded = Len(zip)
    /\ entry = "main"
    /\ pc' = "ready"
    /\ log' = <<>>
    /\ UNCHANGED <<zip, entry, startup_script, loaded, fs, current_path,
                   logfile, script_pos, history, result, asked,
                   before>>

\* ShellEmulator.__init__ with a script argument, up to the loop of
\* run_startup_script
ShellEmulator_init ==
    /\ pc = "load_zip"
    /\ loaded = Len(zip)
    /\ entry = "emulator"
    /\ log' = <<>>
    /\ pc' = IF startup_script.given /\ startup_script.exists
                  /\ startup_script.lines # <<>>
             THEN "startup" ELSE "ready"
    /\ UNCHANGED <<zip, entry, startup_script, loaded, fs, current_path,
                   logfile, script_pos, history, result, asked,
                   before>>

\* the effect of a call of execute_command on the state
Execute(command) ==
    \E r \in {execute_command(fs, current_path, zip, log, command)} :
        /\ fs' = r.fs
        /\ current_path' = r.current_path
        /\ log' = r.log
        /\ logfile' = IF r.log # log THEN [written |-> TRUE, records |-> r.log]
                      ELSE logfile
        /\ result' = r.result
        /\ history' = Append(history, command)
        /\ before' = [fs |-> fs, current_path |-> current_path]

\* one turn of the loop of run_startup_script; an exception ends the
\* construction
run_startup_script ==
    /\ pc = "startup"
    /\ Len(history) < MaxCalls
    /\ Execute(Strip(startup_script.lines[script_pos + 1], Whitespace))
    /\ script_pos' = script_pos + 1
    /\ pc' = IF result'.kind = "raise" THEN "failed"
             ELSE IF script_pos' = Len(startup_script.lines) THEN "ready"
             ELSE "startup"
    /\ UNCHANGED <<zip, entry, startup_script, loaded, asked>>

\* ShellApp.process_command for a text from the set given: the answer is
\* that of the quit dialog
ProcessCommand(texts) ==
    /\ pc = "ready"
    /\ entry = "main"
    /\ Len(history) < MaxCalls
    /\ \E command \in texts :
        /\ Execute(command)
        /\ asked' = (result' = Str(s_exit))
        /\ \E answer \in (IF asked' THEN BOOLEAN ELSE {FALSE}) :
               pc' = IF answer THEN "destroyed" ELSE "ready"
    /\ UNCHANGED <<zip, entry, startup_script, loaded, script_pos>>

process_command == ProcessCommand(Commands)

Next ==
    \/ LoadEntry
    \/ ShellApp_init
    \/ ShellEmulator_init
    \/ run_startup_script
    \/ process_command

Spec == Init /\ [][Next]_vars

(* ------------------- the program over generated files ----------------- *)
TextChars == {"a", SP, NL}

WcExample  == <<"a", " ", "b", NL, "c">>
TacExample == <<"1", NL, "2", NL, "3">>

\* the contents of the file: every text of up to MaxLen characters, and
\* the two examples
Texts == SeqsUpTo(TextChars, MaxLen) \cup {WcExample, TacExample}

\* an archive that holds the one file f
TextArchives == {<<[filename |-> s_f, data |-> t]>> : t \in Texts}

TextCommands == {Cmd(s_wc, s_f), Cmd(s_tac, s_f)}

InitText ==
    /\ zip \in TextArchives
    /\ entry = "main"
    /\ startup_script = NoScript
    /\ pc = "load_zip"
    /\ loaded = 0
    /\ fs = <<>>
    /\ current_path = <<s_root>>
    /\ log = <<>>
    /\ logfile = [written |-> FALSE, records |-> <<>>]
    /\ script_pos = 0
    /\ history = <<>>
    /\ result = None
    /\ asked = FALSE
    /\ before = [fs |-> <<>>, current_path |-> <<s_root>>]

process_text_command == ProcessCommand(TextCommands)

NextText ==
    \/ LoadEntry
    \/ ShellApp_init
    \/ process_text_command

SpecText == InitText /\ [][NextText]_vars

(* --------------------------- shared notions --------------------------- *)
Names == {s_a, s_f, s_type}

\* the step is a call of execute_command
Called == Len(history') = Len(history) + 1

NonEmpty(command) == split(command) # <<>>

\* the node the path stack resolves to, before the step
Current == _navigate_to_current_dir(fs, current_path)

\* name is a child of the current directory
IsChild(name) == Current.k = "dict" /\ Has(fs, Append(Current.p, name))

NotFoundDir(name)  == Str(<<"Directory '">> \o name \o <<"' not found.">>)
NotFoundFile(name) == Str(<<"Error: File '">> \o name \o <<"' not found.">>)
Created(name)      == Str(<<"Directory '">> \o name \o <<"' created.">>)
AlreadyExists(name) == Str(<<"Directory '">> \o name \o <<"' already exists.">>)

Paths(t) == {t[i].path : i \in 1..Len(t)}
Entries(t) == {t[i] : i \in 1..Len(t)}

(* ------------------------------- claims ------------------------------- *)

\* C1: the path stack, walked from the root, always resolves to an existing
\* directory node, never to a file leaf or to a node that does not exist.
C1_PathResolvesToDirectory ==
    /\ Current.k = "dict"
    /\ IsDirectory(fs, Current.p)

\* C2: the log holds exactly one record for every call whose text has a
\* token, in the order of the calls, and none for an empty or blank text;
\* the log file holds the same records.
C2_OneRecordPerCommand ==
    LET executed == SelectSeq(history, NonEmpty)
    IN  /\ Len(log) = Len(executed)
        /\ \A i \in 1..Len(log) : log[i].command = executed[i]
        /\ logfile.records = log

\* C3: the tree built from the entries of the archive is the tree built
\* from any permutation of them (same names, same kinds, same children).
C3_BuildOrderIndependent ==
    (pc = "load_zip" /\ loaded = Len(zip)) =>
        \A f \in Permutations(1..Len(zip)) :
            Entries(load_zip(<<>>, [i \in 1..Len(zip) |-> zip[f[i]]], 1))
                = Entries(fs)

\* C4: once commands are accepted after a start with a script that exists,
\* every line of the script has been passed to execute_command, in order,
\* ahead of everything else.
C4_ScriptRunsBeforeCommands ==
    (pc = "ready" /\ startup_script.given /\ startup_script.exists) =>
        /\ Len(history) >= Len(startup_script.lines)
        /\ \A i \in 1..Len(startup_script.lines) :
               history[i] = Strip(startup_script.lines[i], Whitespace)

\* C5: a command with a token, other than exit, returns a result string,
\* and the session is not ended by a failure.
C5_NoCommandIsFatal ==
    /\ pc # "failed"
    /\ (history # <<>> /\ NonEmpty(Last(history))
          /\ split(Last(history))[1] # s_exit) => result.kind = "str"

\* C6: only the command exit makes the caller ask to end the session.
C6_ExitSentinelDistinct ==
    asked => (NonEmpty(Last(history)) /\ split(Last(history))[1] = s_exit)

\* C7: cd to a name other than ".." that is not a child of the current
\* directory returns the not-found message, keeps the path stack and is
\* logged.
C7_CdMissingName ==
    [][\A name \in Names :
          (Called /\ Last(history') = Cmd(s_cd, name) /\ ~IsChild(name)) =>
              /\ result' = NotFoundDir(name)
              /\ current_path' = current_path
              /\ log' = Append(log, [user |-> Username, command |-> Cmd(s_cd, name)])
      ]_vars

\* C8: mkdir of a name in a current directory that resolves reports
\* "created" and adds one empty directory child when the name is new, and
\* reports "already exists" and keeps the tree when the name is a child.
C8_Mkdir ==
    [][\A name \in Names :
          (Called /\ Last(history') = Cmd(s_mkdir, name) /\ Current.k = "dict") =>
              IF IsChild(name)
              THEN /\ result' = AlreadyExists(name)
                   /\ fs' = fs
              ELSE /\ result' = Created(name)
                   /\ Entries(fs') = Entries(fs) \cup
                          {[path |-> Append(Current.p, name), val |-> "dict"]}
                   /\ Len(fs') = Len(fs) + 1
                   /\ IsDirectory(fs', Append(Current.p, name))
                   /\ Keys(fs', Append(Current.p, name)) = <<>>
      ]_vars

\* mkdir a twice at the root: created, then already exists, one child a
C8_Witness ==
    /\ history = <<Cmd(s_mkdir, s_a), Cmd(s_mkdir, s_a)>>
    /\ zip = <<>>
    /\ result = AlreadyExists(s_a)
    /\ Keys(fs, <<>>) = <<s_a>>

\* C9: the path stack always starts with the root segment; cd ".." keeps a
\* stack that holds only the root, removes the last segment otherwise, and
\* returns the empty text.
C9_PathStack ==
    /\ [](Len(current_path) >= 1 /\ current_path[1] = s_root)
    /\ [][(Called /\ Last(history') = Cmd(s_cd, s_up)) =>
              /\ result' = Str(<<>>)
              /\ current_path' = IF Len(current_path) > 1
                                 THEN Front(current_path) ELSE current_path
         ]_vars

\* cd a, cd .. brought the stack back to the root; cd .. again kept it
C9_Witness ==
    /\ history = <<Cmd(s_cd, s_a), Cmd(s_cd, s_up), Cmd(s_cd, s_up)>>
    /\ Has(fs, <<s_a>>)
    /\ current_path = <<s_root>>
    /\ result = Str(<<>>)

\* C10: wc and tac of a name that is not a child of the current directory,
\* or whose joined path has no decodable content in the archive, return
\* the file-not-found message.
C10_ReadFailureIsNotFound ==
    [][\A name \in Names, verb \in {s_wc, s_tac} :
          (/\ Called
           /\ Last(history') = Cmd(verb, name)
           /\ \/ ~IsChild(name)
              \/ LET bytes == ZipRead(zip, join(<<SLASH>>,
                                  Append(Tail(current_path), name)))
                 IN  bytes.kind = "raise" \/ decode(bytes.s).kind = "raise")
          => result' = NotFoundFile(name)
      ]_vars

NoDirectoryName == Str(<<"No directory name provided.">>)
NoFileName      == Str(<<"No file name provided.">>)

\* the commands that take a name
NameCommands == {s_mkdir, s_cd, s_wc, s_tac}

\* C11 as stated: mkdir, cd, wc and tac given without a name return a
\* "no name provided" message, change neither tree nor path stack and are
\* logged.
C11_MissingNameMessage ==
    [][\A verb \in NameCommands :
          (Called /\ Last(history') = verb) =>
              /\ result' \in {NoDirectoryName, NoFileName}
              /\ fs' = fs
              /\ current_path' = current_path
              /\ log' = Append(log, [user |-> Username, command |-> verb])
      ]_vars

\* C11 amended: mkdir without a name returns "No directory name provided.",
\* wc and tac "No file name provided.", cd the empty text; none of them
\* changes the tree or the path stack, and each is logged.
C11_MissingName ==
    [][\A verb \in NameCommands :
          (Called /\ Last(history') = verb) =>
              /\ result' = (IF verb = s_mkdir THEN NoDirectoryName
                            ELSE IF verb = s_cd THEN Str(<<>>)
                            ELSE NoFileName)
              /\ fs' = fs
              /\ current_path' = current_path
              /\ log' = Append(log, [user |-> Username, command |-> verb])
      ]_vars

\* mkdir and then cd, both without a name, have been executed and logged
C11_Witness ==
    /\ history = <<s_mkdir, s_cd>>
    /\ result = Str(<<>>)
    /\ Len(log) = 2
    /\ log[2].command = s_cd

\* C12: a command that is logged adds exactly one record, user and the text
\* of the command as given, at the end of the log; the records before it
\* stay as they were, and the log file then holds the whole log.
C12_LogAppendOnly ==
    /\ [](logfile.written => logfile.records = log)
    /\ [][(Called /\ log' # log) =>
              /\ log' = Append(log, [user |-> Username,
                                     command |-> Last(history')])
              /\ logfile' = [written |-> TRUE, records |-> log']
         ]_vars
    /\ [][Len(log') >= Len(log) /\ SubSeq(log', 1, Len(log)) = log]_vars

\* three different commands are in the log and in the log file, in order
C12_Witness ==
    /\ Len(log) = 3
    /\ log[1].command = s_ls
    /\ log[2].command = Cmd(s_mkdir, s_a)
    /\ log[3].command = s_foo
    /\ logfile = [written |-> TRUE, records |-> log]

\* the names of the child nodes of the node at p, in insertion order (the
\* marker stored in a file leaf is not a child)
RECURSIVE ChildNames(_, _, _)
ChildNames(t, p, keys) ==
    IF keys = <<>> THEN <<>>
    ELSE (IF Val(t, Append(p, Head(keys))) = "dict" THEN <<Head(keys)>> ELSE <<>>)
         \o ChildNames(t, p, Tail(keys))

\* the children of the current directory, before the step
Children ==
    IF Current.k = "dict" THEN ChildNames(fs, Current.p, Keys(fs, Current.p))
    ELSE <<>>

DisplayName(name) ==
    IF IsFileLeaf(fs, Append(Current.p, name)) THEN name ELSE name \o <<SLASH>>

NoEntries == <<"No files or directories found.">>

\* C13: ls returns the display names of the children of the current
\* directory in insertion order, one per line, a directory's name followed
\* by "/", and the no-entries message when there is no child; the result is
\* never empty.
C13_LsListsChildren ==
    [][(Called /\ Last(history') = s_ls) =>
          /\ result'.kind = "str"
          /\ result'.s # <<>>
          /\ result'.s = IF Children = <<>> THEN NoEntries
                         ELSE join(<<NL>>, [i \in 1..Len(Children) |->
                                               DisplayName(Children[i])])
      ]_vars

\* name is a file among the children of the current directory
IsFileChild(name) == IsChild(name) /\ IsFileLeaf(fs, Append(Current.p, name))

\* the bytes the archive holds for name in the current directory
StoredBytes(name) ==
    ZipRead(zip, join(<<SLASH>>, Append(Tail(current_path), name)))

\* name is a file child whose content the archive holds and decodes
Readable(name) ==
    /\ IsFileChild(name)
    /\ StoredBytes(name).kind = "str"
    /\ decode(StoredBytes(name).s).kind = "str"

DecodedText(name) == decode(StoredBytes(name).s).s

\* segments delimited by line breaks: one for each line break, and one for
\* what follows the last line break
CountLines(t) ==
    Cardinality({i \in 1..Len(t) : t[i] = NL})
        + (IF t # <<>> /\ Last(t) # NL THEN 1 ELSE 0)

\* tokens delimited by whitespace: the places where a token starts
CountWords(t) ==
    Cardinality({i \in 1..Len(t) :
                    /\ t[i] \notin Whitespace
                    /\ (i = 1 \/ t[i - 1] \in Whitespace)})

\* C14: wc of a file child with decoded text t returns "L lines, W words,
\* C characters", L the segments delimited by line breaks, W the tokens
\* delimited by whitespace, C the length of t.
C14_WcCounts ==
    [][\A name \in Names :
          (Called /\ Last(history') = Cmd(s_wc, name) /\ Readable(name)) =>
              result' = Str(str(CountLines(DecodedText(name))) \o <<" lines, ">>
                            \o str(CountWords(DecodedText(name))) \o <<" words, ">>
                            \o str(Len(DecodedText(name))) \o <<" characters">>)
      ]_vars

\* wc of the file with content "a b\nc"
C14_Witness ==
    /\ zip = <<[filename |-> s_f, data |-> WcExample]>>
    /\ history # <<>>
    /\ Last(history) = Cmd(s_wc, s_f)
    /\ result = Str(<<"2", " lines, ", "3", " words, ", "5", " characters">>)

\* the lines of a text read from last to first
Backwards(lines) == [i \in 1..Len(lines) |-> lines[Len(lines) + 1 - i]]

\* C15 as stated: tac of a file child returns the lines of the content in
\* reversed order joined by newline, and the lines of the result are the
\* lines of the content from last to first (so the same lines, and the
\* content's lines again when reversed once more).
C15_TacLinesOfResult ==
    [][\A name \in Names :
          (Called /\ Last(history') = Cmd(s_tac, name) /\ Readable(name)) =>
              /\ result'.kind = "str"
              /\ result'.s = join(<<NL>>, Backwards(splitlines(DecodedText(name))))
              /\ splitlines(result'.s) = Backwards(splitlines(DecodedText(name)))
              /\ Backwards(splitlines(result'.s)) = splitlines(DecodedText(name))
      ]_vars

\* C15 amended: tac of a file child returns the lines of the content from
\* last to first joined by newline; when the first line of the content is
\* not empty, the lines of the result are those lines, and reversed once
\* more they are the lines of the content.
C15_TacReverses ==
    [][\A name \in Names :
          (Called /\ Last(history') = Cmd(s_tac, name) /\ Readable(name)) =>
              LET lines == splitlines(DecodedText(name))
              IN  /\ result'.kind = "str"
                  /\ result'.s = join(<<NL>>, Backwards(lines))
                  /\ (lines = <<>> \/ lines[1] # <<>>) =>
                        /\ splitlines(result'.s) = Backwards(lines)
                        /\ Backwards(splitlines(result'.s)) = lines
      ]_vars

\* tac of the file with three different lines
C15_Witness ==
    /\ zip = <<[filename |-> s_f, data |-> TacExample]>>
    /\ history # <<>>
    /\ Last(history) = Cmd(s_tac, s_f)
    /\ result = Str(<<"3", NL, "2", NL, "1">>)

\* C16: a file leaf never holds a child (its only key is the marker), and a
\* node that stays in the tree keeps its kind.
C16_FileIsTerminal ==
    /\ [](\A p \in Paths(fs) : IsFileLeaf(fs, p) => Keys(fs, p) = <<s_type>>)
    /\ [][\A p \in Paths(fs) \cap Paths(fs') :
             /\ Val(fs', p) = Val(fs, p)
             /\ IsFileLeaf(fs', p) <=> IsFileLeaf(fs, p)
         ]_vars

\* C17: while the archive is loaded, a directory entry whose node is in the
\* tree already leaves the tree as it is.
C17_DirectoryEntryIdempotent ==
    [][(/\ pc = "load_zip"
        /\ loaded' = loaded + 1
        /\ is_dir(zip[loaded + 1])
        /\ Has(fs, SplitOn(Strip(zip[loaded + 1].filename, {SLASH}), SLASH, <<>>)))
          => fs' = fs
      ]_vars

\* the command word of the call made by the step (empty for a blank text)
CommandWord ==
    IF NonEmpty(Last(history')) THEN split(Last(history'))[1] ELSE <<>>

\* C18: a call changes the tree only when it is mkdir, and then by adding
\* one directory to the children of the current directory; it changes the
\* path stack only when it is cd; it never removes a node.
C18_Frame ==
    [][Called =>
          /\ fs' # fs =>
                /\ CommandWord = s_mkdir
                /\ Current.k = "dict"
                /\ \E name \in Names :
                      /\ ~Has(fs, Append(Current.p, name))
                      /\ fs' = Append(fs, [path |-> Append(Current.p, name),
                                           val |-> "dict"])
          /\ current_path' # current_path => CommandWord = s_cd
          /\ Entries(fs) \subseteq Entries(fs')
      ]_vars

\* mkdir a changed the tree, cd a changed the path stack, wc f changed
\* neither
C18_Witness ==
    /\ zip = <<>>
    /\ history = <<Cmd(s_mkdir, s_a), Cmd(s_cd, s_a), Cmd(s_wc, s_f)>>
    /\ fs = <<[path |-> <<s_a>>, val |-> "dict"]>>
    /\ current_path = <<s_root, s_a>>
    /\ before = [fs |-> fs, current_path |-> current_path]

\* C19: cd to a name other than ".." that succeeds, and cd ".." right after
\* it, bring the path stack back to what it was, with the same tree all
\* along.
C19_CdRoundTrip ==
    [][\A name \in Names :
          (/\ Called
           /\ Last(history') = Cmd(s_cd, s_up)
           /\ history # <<>>
           /\ Last(history) = Cmd(s_cd, name)
           /\ result = Str(<<>>))
          => /\ current_path = Append(before.current_path, name)
             /\ current_path' = before.current_path
             /\ fs = before.fs
             /\ fs' = fs
      ]_vars

\* cd a, cd f, cd ..: back in a
C19_Witness ==
    /\ history = <<Cmd(s_cd, s_a), Cmd(s_cd, s_f), Cmd(s_cd, s_up)>>
    /\ before.current_path = <<s_root, s_a, s_f>>
    /\ current_path = <<s_root, s_a>>

====
